---- MODULE Spec2Model ----
(***************************************************************************)
(* Model of the UPS carrier integration: the OAuth token store             *)
(* (UpsAuthImpl), the error classifier (domain/errors.ts) and the carrier  *)
(* gateway (UpsService.getRates with UpsClientImpl and UpsMapperImpl).     *)
(*                                                                         *)
(* Optional fields of the TypeScript objects are modelled as sets: {} is   *)
(* `undefined`, {v} is the value v.  Credentials are objects on a heap     *)
(* (a sequence); a reference is an index, 0 is null.                       *)
(***************************************************************************)
EXTENDS Integers, Sequences, FiniteSets, TLC

\* ------------------------------------------------------------------------
\* Bounds of the model
\* ------------------------------------------------------------------------
NumCallers == 2          \* concurrent logical callers of the service
MaxCalls == 2            \* invocations started in one behaviour
MaxTicks == 1            \* clock advances in one behaviour
MaxStatus == 600         \* greatest status handed to httpStatusToSeverity
NegStatuses == 1         \* statuses below zero handed to httpStatusToSeverity
LongBodyLen == 499       \* characters of the longest response text

Callers == 1..NumCallers

\* the clock advances by this amount (ms): the refresh buffer, 5 minutes
TickSteps == {300000}

\* ------------------------------------------------------------------------
\* Program constants
\* ------------------------------------------------------------------------
TOKEN_REFRESH_BUFFER_MS == 5 * 60 * 1000
DEFAULT_EXPIRES_IN == 3600
carrierId == "ups"
DEFAULT_TIMEOUT == 30000

None == [none |-> TRUE]

\* ------------------------------------------------------------------------
\* State
\* ------------------------------------------------------------------------
VARIABLES
  now,          \* Date.now(), ms
  ticks,        \* clock advances so far
  calls,        \* invocations started so far
  heap,         \* the UpsToken objects constructed so far, None in the
                \* place of one that has been reclaimed
  cachedToken,  \* UpsAuthImpl.cachedToken: a heap reference, 0 is null
  wire,         \* transport calls issued and not yet settled
  pc,           \* where each caller's invocation stands
  op,           \* the operation each caller invoked
  req,          \* the request passed to getRates
  rateAuth,     \* Authorization header of the rate call of the invocation
  tokenPosts,   \* token endpoint calls issued by the invocation
  ratePosts,    \* rate endpoint calls issued by the invocation
  startKind,    \* cache as the invocation's getValidToken found it
  sinceClear,   \* "none", or since the last clearCache no call started yet:
                \* "clean" (no cache write since), "dirty" (a write since)
  afterClear,   \* sinceClear as the invocation's getValidToken found it
  tokenFailed,  \* some getValidToken call has returned a failure
  afterFailure, \* tokenFailed as the invocation's getValidToken found it
  last          \* what the latest step returned to a caller, None if nothing

vars == <<now, ticks, calls, heap, cachedToken, wire, pc, op, req,
          rateAuth, tokenPosts, ratePosts, startKind,
          sinceClear, afterClear, tokenFailed, afterFailure, last>>

\* ------------------------------------------------------------------------
\* Strings
\* ------------------------------------------------------------------------
\* String.prototype.includes
Includes(s, sub) ==
  \E i \in 1..(Len(s) - Len(sub) + 1) : SubSeq(s, i, i + Len(sub) - 1) = sub

UpperChars == <<"A","B","C","D","E","F","G","H","I","J","K","L","M",
                "N","O","P","Q","R","S","T","U","V","W","X","Y","Z">>
LowerChars == <<"a","b","c","d","e","f","g","h","i","j","k","l","m",
                "n","o","p","q","r","s","t","u","v","w","x","y","z">>

LowerChar(c) ==
  IF \E i \in 1..26 : UpperChars[i] = c
  THEN LowerChars[CHOOSE i \in 1..26 : UpperChars[i] = c]
  ELSE c

\* String.prototype.toLowerCase
RECURSIVE toLowerCase(_)
toLowerCase(s) ==
  IF Len(s) = 0 THEN ""
  ELSE LowerChar(SubSeq(s, 1, 1)) \o toLowerCase(SubSeq(s, 2, Len(s)))

\* ------------------------------------------------------------------------
\* Error classifier (domain/errors.ts)
\* ------------------------------------------------------------------------
\* a CarrierError; a member left out by the code is {} (undefined), and
\* `details` is a record of the members the code sets, or None
CarrierError(severity, message, code, carrier, httpStatus, details, originalError) ==
  [severity |-> severity, message |-> message, code |-> code,
   carrier |-> carrier, httpStatus |-> httpStatus, details |-> details,
   originalError |-> originalError]

Ok(data) == [success |-> TRUE, data |-> data]
Fail(error) == [success |-> FALSE, error |-> error]

createValidationError(message, details) ==
  CarrierError("VALIDATION_ERROR", message, "VALIDATION_ERROR", {}, {},
               details, {})

createAuthError(message, carrier, httpStatus, details) ==
  CarrierError("AUTH_ERROR", message, "AUTH_ERROR", carrier, httpStatus,
               details, {})

createServerError(message, code, carrier, httpStatus, details) ==
  CarrierError("SERVER_ERROR", message, code, carrier, httpStatus, details, {})

createNetworkError(message, carrier, details, originalError) ==
  CarrierError("NETWORK_ERROR", message, "NETWORK_ERROR", carrier, {},
               details, {originalError})

createUnknownError(message, carrier, originalError, details) ==
  CarrierError("UNKNOWN_ERROR", message, "UNKNOWN_ERROR", carrier, {},
               details, {originalError})

\* the values of ErrorSeverity
Severities ==
  {"CLIENT_ERROR", "SERVER_ERROR", "NETWORK_ERROR", "AUTH_ERROR",
   "RATE_LIMIT_ERROR", "VALIDATION_ERROR", "UNKNOWN_ERROR"}

\* `details` with a retryAfter member added (`{ ...details, retryAfter }`)
withRetryAfter(details, retryAfter) ==
  IF details = None THEN [retryAfter |-> retryAfter]
  ELSE [k \in DOMAIN details \cup {"retryAfter"} |->
          IF k = "retryAfter" THEN retryAfter ELSE details[k]]

createRateLimitError(message, carrier, httpStatus, retryAfter, details) ==
  CarrierError("RATE_LIMIT_ERROR", message, "RATE_LIMIT_ERROR", carrier,
               httpStatus, withRetryAfter(details, retryAfter), {})

\* 403 taken for an ordinary client error
httpStatusToSeverity_403Client(status) ==
  IF status >= 400 /\ status < 500
  THEN IF status = 401 THEN "AUTH_ERROR"
       ELSE IF status = 429 THEN "RATE_LIMIT_ERROR"
       ELSE "CLIENT_ERROR"
  ELSE IF status >= 500 THEN "SERVER_ERROR"
  ELSE "UNKNOWN_ERROR"

httpStatusToSeverity(status) ==
  IF status >= 400 /\ status < 500
  THEN IF status = 401 \/ status = 403 THEN "AUTH_ERROR"
       ELSE IF status = 429 THEN "RATE_LIMIT_ERROR"
       ELSE "CLIENT_ERROR"
  ELSE IF status >= 500 THEN "SERVER_ERROR"
  ELSE "UNKNOWN_ERROR"

\* the message httpErrorToCarrierError takes from an object body
bodyMessage(status, statusText, body) ==
  IF "message" \in DOMAIN body /\ body.message # {}
  THEN CHOOSE m \in body.message : TRUE
  ELSE IF "error" \in DOMAIN body /\ body.error # {}
  THEN CHOOSE m \in body.error : TRUE
  ELSE "HTTP " \o ToString(status) \o ": " \o statusText

\* the retryAfter of the body copied into the details
httpErrorToCarrierError_RetryAfter(status, statusText, body, carrier) ==
  CarrierError(httpStatusToSeverity(status),
               "HTTP " \o ToString(status) \o ": " \o statusText,
               "HTTP_" \o ToString(status), carrier, {status},
               IF body.type = "object" /\ "retryAfter" \in DOMAIN body
               THEN [responseBody |-> body, retryAfter |-> body.retryAfter]
               ELSE None,
               {})

httpErrorToCarrierError_NoStatus(status, statusText, body, carrier) ==
  CarrierError(httpStatusToSeverity(status),
               "HTTP " \o ToString(status) \o ": " \o statusText,
               "HTTP_ERROR", carrier, {}, None, {})

httpErrorToCarrierError(status, statusText, body, carrier) ==
  CarrierError(httpStatusToSeverity(status),
               IF body.type = "object"
               THEN bodyMessage(status, statusText, body)
               ELSE "HTTP " \o ToString(status) \o ": " \o statusText,
               "HTTP_" \o ToString(status), carrier, {status},
               IF body.type = "object" THEN [responseBody |-> body]
               ELSE IF body.type = "string" /\ body.text # ""
               THEN [responseBody |-> body.text]
               ELSE None,
               {})

\* `error` is a rejection value: an Error (name, message) or a string
networkErrorToCarrierError(error, carrier, timeout) ==
  LET timedOut == /\ error.isError
                  /\ \/ Includes(error.message, "timeout")
                     \/ Includes(error.message, "ETIMEDOUT")
                     \/ error.name = "TimeoutError"
      connection == /\ error.isError
                    /\ \/ Includes(error.message, "ECONNREFUSED")
                       \/ Includes(error.message, "ENOTFOUND")
                       \/ Includes(error.message, "network")
  IN createNetworkError(
       IF connection THEN "Failed to connect to carrier API"
       ELSE IF timedOut
       THEN "Request timed out after " \o ToString(timeout) \o "ms"
       ELSE error.message,
       carrier,
       IF timedOut THEN [timeout |-> timeout] ELSE None,
       error)

\* String.prototype.substring(0, n)
substring(s, n) == IF Len(s) <= n THEN s ELSE SubSeq(s, 1, n)

\* responseText with no limit on its length
jsonParseErrorToCarrierError_Untruncated(error, carrier, responseText) ==
  createServerError("Invalid JSON response: " \o error.message,
                    "JSON_PARSE_ERROR", carrier, {},
                    [responseText |-> responseText,
                     originalError |-> error])

\* `error` is the SyntaxError of JSON.parse
jsonParseErrorToCarrierError(error, carrier, responseText) ==
  createServerError("Invalid JSON response: " \o error.message,
                    "JSON_PARSE_ERROR", carrier, {},
                    [responseText |-> substring(responseText, 500),
                     originalError |-> error])

\* the message without the context in front of it
unknownErrorToCarrierError_NoContext(error, carrier, context) ==
  createUnknownError(error.message, carrier, error, [context |-> context])

\* `error` is an Error or a string; both give their text as the message
unknownErrorToCarrierError(error, carrier, context) ==
  createUnknownError(context \o ": " \o error.message, carrier, error,
                     [context |-> context])

\* getRetryAfter: the number under details.retryAfter of a RATE_LIMIT
\* error, absent otherwise
getRetryAfter(error) ==
  IF /\ error.severity = "RATE_LIMIT_ERROR"
     /\ "retryAfter" \in DOMAIN error.details
  THEN error.details.retryAfter
  ELSE {}

\* every AUTH error taken for retryable
isRetryableError_AuthAlways(error) ==
  CASE error.severity = "NETWORK_ERROR" -> TRUE
    [] error.severity = "SERVER_ERROR" -> TRUE
    [] error.severity = "RATE_LIMIT_ERROR" -> TRUE
    [] error.severity = "AUTH_ERROR" -> TRUE
    [] OTHER -> FALSE

isRetryableError(error) ==
  CASE error.severity = "NETWORK_ERROR" -> TRUE
    [] error.severity = "SERVER_ERROR" -> TRUE
    [] error.severity = "RATE_LIMIT_ERROR" -> TRUE
    [] error.severity = "AUTH_ERROR" -> error.code = "TOKEN_EXPIRED"
    [] OTHER -> FALSE

\* ------------------------------------------------------------------------
\* Transport: what httpClient.post can resolve or reject with
\* ------------------------------------------------------------------------
Thrown(isError, name, message) ==
  [isError |-> isError, name |-> name, message |-> message]

\* values a transport call can reject with; the first is the one
\* FetchHttpClient.post builds on abort
Exceptions ==
  { Thrown(TRUE, "Error", "Request timeout after 30000ms"),
    Thrown(TRUE, "TimeoutError", "The operation was aborted"),
    Thrown(TRUE, "ECONNREFUSED", "Connection refused"),
    Thrown(FALSE, "", "boom") }

\* the reason phrase the server sends with a status
StatusText(status) ==
  CASE status \in 200..299 -> "OK"
    [] status = 400 -> "Bad Request"
    [] status = 401 -> "Unauthorized"
    [] status = 403 -> "Forbidden"
    [] status = 429 -> "Too Many Requests"
    [] status = 500 -> "Internal Server Error"
    [] OTHER -> ""

Rejected(error) == [kind |-> "throw", error |-> error]
Resolved(status, body) ==
  [kind |-> "response", status |-> status, statusText |-> StatusText(status),
   body |-> body]

StringBody(text) == [type |-> "string", text |-> text]
NullBody == [type |-> "null"]

\* a token endpoint body that is an object
TokenObject(access_token, token_type, expires_in) ==
  [type |-> "object", access_token |-> access_token,
   token_type |-> token_type, expires_in |-> expires_in]

ErrorObject == [type |-> "object", error |-> {"Invalid credentials"}]

\* the body of a 429 answer
RateLimitObject ==
  [type |-> "object", error |-> {"Rate limit exceeded"}, retryAfter |-> {60}]

GoodTokenText ==
  "{\"access_token\":\"T1\",\"token_type\":\"Bearer\",\"expires_in\":3600}"

\* the SyntaxError JSON.parse throws on a text that starts with a character
\* no JSON value starts with
SyntaxError(text) ==
  Thrown(TRUE, "SyntaxError",
         "Unexpected token " \o SubSeq(text, 1, 1) \o " in JSON at position 0")

\* JSON.parse on the texts the model sends: the parsed value or a SyntaxError
JSONparse(text) ==
  IF text = GoodTokenText
  THEN [ok |-> TRUE, value |-> TokenObject({"T1"}, {"Bearer"}, {3600})]
  ELSE IF text = "null" THEN [ok |-> TRUE, value |-> NullBody]
  ELSE [ok |-> FALSE, error |-> SyntaxError(text)]

\* JSON.stringify of a string: quoted, with quotes and backslashes escaped
RECURSIVE escapeJSON(_)
escapeJSON(text) ==
  IF Len(text) = 0 THEN ""
  ELSE IF Len(text) = 1
  THEN IF text = "\"" \/ text = "\\" THEN "\\" \o text ELSE text
  ELSE escapeJSON(SubSeq(text, 1, Len(text) \div 2))
         \o escapeJSON(SubSeq(text, Len(text) \div 2 + 1, Len(text)))

JSONstringify(text) == "\"" \o escapeJSON(text) \o "\""

RECURSIVE Repeat(_, _)
Repeat(text, n) ==
  IF n = 0 THEN ""
  ELSE IF n = 1 THEN text
  ELSE Repeat(text, n \div 2) \o Repeat(text, n - n \div 2)

\* a text that is not JSON and whose JSON.stringify is one character longer
\* than the limit of responseText
LongText == Repeat("x", LongBodyLen)

TokenBodies ==
  { TokenObject({"T1"}, {"Bearer"}, {3600}),
    TokenObject({"T2"}, {"Bearer"}, {400}),
    TokenObject({"T3"}, {"Bearer"}, {300}),
    TokenObject({"T1"}, {"Bearer"}, {}),
    TokenObject({"T1"}, {"Bearer"}, {0}),
    TokenObject({}, {"Bearer"}, {3600}),
    TokenObject({"T1"}, {}, {3600}),
    StringBody(GoodTokenText),
    StringBody("invalid json{"),
    StringBody(LongText) }

ErrorStatuses == {199, 300, 400, 401, 403, 429, 500}
TokenErrorStatuses == {199, 300, 401, 500}

TokenResponses ==
  { Rejected(e) : e \in Exceptions }
    \cup { Resolved(200, b) : b \in TokenBodies }
    \cup { Resolved(299, TokenObject({"T2"}, {"Bearer"}, {400})) }
    \cup { Resolved(s, ErrorObject) : s \in TokenErrorStatuses }

\* ------------------------------------------------------------------------
\* Token store (ups.auth.ts)
\* ------------------------------------------------------------------------
TheOne(S) == CHOOSE x \in S : TRUE

\* a member of a parsed body, {} when the body has no such member
Member(body, key) == IF key \in DOMAIN body THEN body[key] ELSE {}

\* an issue of a ZodError
Issue(path, message) == [path |-> path, message |-> message]
IssueIf(broken, path, message) ==
  IF broken THEN <<Issue(path, message)>> ELSE <<>>

\* formatValidationError (domain/validation.ts)
RECURSIVE formatValidationError(_)
formatValidationError(errors) ==
  IF Len(errors) = 0 THEN ""
  ELSE LET err == Head(errors)
           text == IF err.path # "" THEN err.path \o ": " \o err.message
                   ELSE err.message
       IN IF Len(errors) = 1 THEN text
          ELSE text \o "; " \o formatValidationError(Tail(errors))

\* z.string().min(1, message) on a member
requiredString(value, path, message) ==
  IF value = {} THEN <<Issue(path, "Required")>>
  ELSE IssueIf(Len(TheOne(value)) < 1, path, message)

\* the issues upsTokenResponseSchema finds
upsTokenResponseSchema(response) ==
  IF response.type # "object"
  THEN <<Issue("", "Expected object, received " \o response.type)>>
  ELSE requiredString(Member(response, "access_token"), "access_token",
                      "access_token is required and cannot be empty")
       \o requiredString(Member(response, "token_type"), "token_type",
                         "token_type is required and cannot be empty")
       \o (IF Member(response, "expires_in") = {}
           THEN <<Issue("expires_in", "Required")>>
           ELSE IssueIf(TheOne(response.expires_in) <= 0, "expires_in",
                        "expires_in must be positive"))

\* upsTokenResponseSchema.safeParse
validateUpsTokenResponseSafe(response) ==
  IF Len(upsTokenResponseSchema(response)) = 0
  THEN [success |-> TRUE, data |-> response]
  ELSE [success |-> FALSE, error |-> upsTokenResponseSchema(response)]

\* a credential (UpsToken)
UpsToken(accessToken, tokenType, expiresAt) ==
  [accessToken |-> accessToken, tokenType |-> tokenType,
   expiresAt |-> expiresAt]

\* the comparison the wrong way round
isTokenValid_Reversed(token, clock) ==
  token.expiresAt < clock + TOKEN_REFRESH_BUFFER_MS

\* a credential exactly on the buffer boundary counted as valid
isTokenValid_Inclusive(token, clock) ==
  token.expiresAt >= clock + TOKEN_REFRESH_BUFFER_MS

isTokenValid(token, clock) ==
  token.expiresAt > clock + TOKEN_REFRESH_BUFFER_MS

\* the catch clause of acquireToken
acquireTokenCatch(error) ==
  IF /\ error.isError
     /\ \/ Includes(error.message, "timeout")
        \/ Includes(error.message, "ETIMEDOUT")
        \/ Includes(error.message, "ECONNREFUSED")
        \/ Includes(error.message, "ENOTFOUND")
  THEN Fail(networkErrorToCarrierError(error, {"ups"}, DEFAULT_TIMEOUT))
  ELSE Fail(unknownErrorToCarrierError(error, {"ups"},
                                       "Failed to acquire token"))

\* `tokenResponse.expires_in || 3600`
expiresInOrDefault(expires_in) ==
  IF expires_in = {} \/ expires_in = {0} THEN DEFAULT_EXPIRES_IN
  ELSE TheOne(expires_in)

\* acquireToken from the point where the transport call settles with
\* `response`; `clock` is Date.now() at that moment.  A success carries the
\* newly constructed credential.
acquireToken(response, clock) ==
  IF response.kind = "throw" THEN acquireTokenCatch(response.error)
  ELSE IF response.status < 200 \/ response.status >= 300
  THEN Fail(httpErrorToCarrierError(response.status, response.statusText,
                                    response.body, {"ups"}))
  ELSE
    LET parsedBody == IF response.body.type = "string"
                      THEN JSONparse(response.body.text)
                      ELSE [ok |-> TRUE, value |-> response.body]
    IN IF ~parsedBody.ok
       THEN Fail(jsonParseErrorToCarrierError(
                   parsedBody.error, {"ups"},
                   JSONstringify(response.body.text)))
       ELSE LET validationResult == validateUpsTokenResponseSafe(parsedBody.value)
            IN IF ~validationResult.success
               THEN Fail(createValidationError(
                      "Invalid UPS token response structure: "
                        \o formatValidationError(validationResult.error),
                      [validationErrors |-> validationResult.error,
                       httpStatus |-> response.status,
                       originalResponse |-> parsedBody.value]))
               ELSE LET tokenResponse == validationResult.data
                        expiresIn == expiresInOrDefault(tokenResponse.expires_in)
                    IN Ok(UpsToken(TheOne(tokenResponse.access_token),
                                   TheOne(tokenResponse.token_type),
                                   clock + expiresIn * 1000))

\* single-flight: a call that finds an exchange in flight joins it
getValidTokenSync_SingleFlight(cached, objects, clock) ==
  IF cached # 0 /\ isTokenValid(objects[cached], clock)
  THEN [hit |-> TRUE, post |-> FALSE, result |-> Ok(cached)]
  ELSE [hit |-> FALSE, post |-> \A c \in Callers : pc[c] # "awaitToken",
        result |-> None]

\* a stale credential answered with an error instead of an exchange
getValidTokenSync_ExpiredError(cached, objects, clock) ==
  IF cached # 0 /\ isTokenValid(objects[cached], clock)
  THEN [hit |-> TRUE, post |-> FALSE, result |-> Ok(cached)]
  ELSE IF cached # 0
  THEN [hit |-> TRUE, post |-> FALSE,
        result |-> Fail(CarrierError("AUTH_ERROR", "Token expired",
                                     "TOKEN_EXPIRED", {"ups"}, {}, None, {}))]
  ELSE [hit |-> FALSE, post |-> TRUE, result |-> None]

\* getValidToken up to its first await: serve the cached credential, or
\* start an acquisition exchange (one transport call)
getValidTokenSync(cached, objects, clock) ==
  IF cached # 0 /\ isTokenValid(objects[cached], clock)
  THEN [hit |-> TRUE, post |-> FALSE, result |-> Ok(cached)]
  ELSE [hit |-> FALSE, post |-> TRUE, result |-> None]

\* first write wins: a credential cached meanwhile is kept
cacheAfterAcquire_FirstWins(cached, success, fresh) ==
  IF success /\ cached = 0 THEN fresh ELSE cached

\* a failed exchange drops the cached credential
cacheAfterAcquire_Reset(cached, success, fresh) ==
  IF success THEN fresh ELSE 0

\* getValidToken after `await this.acquireToken()`: the cache it leaves.
\* `fresh` is the reference of the credential a successful exchange built.
cacheAfterAcquire(cached, success, fresh) ==
  IF success THEN fresh ELSE cached

\* the object construction `const token: UpsToken = {...}`: a new object on
\* the heap; no existing object is touched
newToken(objects, cached, token) ==
  [objects |-> Append(objects, token), ref |-> Len(objects) + 1]

\* the objects left once the store references `cached` only: an object the
\* code can no longer reach is reclaimed, its slot stays in use
Collect(objects, cached) ==
  [i \in 1..Len(objects) |-> IF i = cached THEN objects[i] ELSE None]

\* clearCache that leaves the field alone
clearCacheValue_Keep(cached) == cached

\* clearCache
clearCacheValue(cached) == 0

\* ------------------------------------------------------------------------
\* Domain validation (domain/validation.ts)
\* ------------------------------------------------------------------------
Digits == {"0","1","2","3","4","5","6","7","8","9"}
IsUpperChar(c) == \E i \in 1..26 : UpperChars[i] = c

\* /^[A-Z]{2}$/ with length(2)
countryCodeSchema(s) ==
  Len(s) = 2 /\ \A i \in 1..Len(s) : IsUpperChar(SubSeq(s, i, i))

PostalChar(c) == IsUpperChar(c) \/ c \in Digits \/ c = " " \/ c = "-"
\* min(3), max(10), /^[A-Z0-9\s-]+$/
postalCodeSchema(s) ==
  /\ Len(s) >= 3
  /\ Len(s) <= 10
  /\ \A i \in 1..Len(s) : PostalChar(SubSeq(s, i, i))

addressSchema(a) ==
  /\ Len(a.street1) >= 1 /\ Len(a.street1) <= 100
  /\ Len(a.city) >= 1 /\ Len(a.city) <= 50
  /\ Len(a.stateOrProvince) >= 1 /\ Len(a.stateOrProvince) <= 50
  /\ postalCodeSchema(a.postalCode)
  /\ countryCodeSchema(a.countryCode)

\* weight checked as non-negative instead of positive
packageSchema_NonNegative(k) ==
  /\ k.weight >= 0 /\ k.weight <= 1000
  /\ k.weightUnit \in {"lbs", "kg"}
  /\ k.length > 0 /\ k.length <= 200
  /\ k.width > 0 /\ k.width <= 200
  /\ k.height > 0 /\ k.height <= 200
  /\ k.dimensionUnit \in {"in", "cm"}

packageSchema(k) ==
  /\ k.weight > 0 /\ k.weight <= 1000
  /\ k.weightUnit \in {"lbs", "kg"}
  /\ k.length > 0 /\ k.length <= 200
  /\ k.width > 0 /\ k.width <= 200
  /\ k.height > 0 /\ k.height <= 200
  /\ k.dimensionUnit \in {"in", "cm"}

serviceLevelSchema(l) == \A v \in l : Len(v) >= 1 /\ Len(v) <= 50

\* rateRequestSchema.safeParse
validateRateRequestSafe(request) ==
  /\ addressSchema(request.origin)
  /\ addressSchema(request.destination)
  /\ packageSchema(request.package)
  /\ serviceLevelSchema(request.serviceLevel)

\* the issues the schemas report, in the order of the schema's members
\* and checks
addressIssues(a, path) ==
  IssueIf(Len(a.street1) < 1, path \o ".street1",
          "Street address line 1 is required")
  \o IssueIf(Len(a.street1) > 100, path \o ".street1",
             "Street address line 1 must be at most 100 characters")
  \o IssueIf(Len(a.city) < 1, path \o ".city", "City is required")
  \o IssueIf(Len(a.city) > 50, path \o ".city",
             "City must be at most 50 characters")
  \o IssueIf(Len(a.stateOrProvince) < 1, path \o ".stateOrProvince",
             "State or province is required")
  \o IssueIf(Len(a.stateOrProvince) > 50, path \o ".stateOrProvince",
             "State or province must be at most 50 characters")
  \o IssueIf(Len(a.postalCode) < 3, path \o ".postalCode",
             "Postal code must be at least 3 characters")
  \o IssueIf(Len(a.postalCode) > 10, path \o ".postalCode",
             "Postal code must be at most 10 characters")
  \o IssueIf(\E i \in 1..Len(a.postalCode) :
               ~PostalChar(SubSeq(a.postalCode, i, i)),
             path \o ".postalCode", "Postal code contains invalid characters")
  \o IssueIf(Len(a.countryCode) # 2, path \o ".countryCode",
             "Country code must be exactly 2 characters")
  \o IssueIf(~countryCodeSchema(a.countryCode), path \o ".countryCode",
             "Country code must be uppercase letters")

\* z.number().positive(..).max(limit, ..) on a member of the package
dimensionIssues(n, limit, path, label) ==
  IssueIf(n <= 0, path, label \o " must be positive")
  \o IssueIf(n > limit, path,
             label \o " exceeds maximum allowed (" \o ToString(limit) \o ")")

packageIssues(k) ==
  dimensionIssues(k.weight, 1000, "package.weight", "Weight")
  \o IssueIf(k.weightUnit \notin {"lbs", "kg"}, "package.weightUnit",
             "Weight unit must be \"lbs\" or \"kg\"")
  \o dimensionIssues(k.length, 200, "package.length", "Length")
  \o dimensionIssues(k.width, 200, "package.width", "Width")
  \o dimensionIssues(k.height, 200, "package.height", "Height")
  \o IssueIf(k.dimensionUnit \notin {"in", "cm"}, "package.dimensionUnit",
             "Dimension unit must be \"in\" or \"cm\"")

\* the ZodError of rateRequestSchema.safeParse
rateRequestIssues(request) ==
  addressIssues(request.origin, "origin")
  \o addressIssues(request.destination, "destination")
  \o packageIssues(request.package)
  \o IssueIf(\E v \in request.serviceLevel : Len(v) < 1, "serviceLevel",
             "Service level cannot be empty")
  \o IssueIf(\E v \in request.serviceLevel : Len(v) > 50, "serviceLevel",
             "Service level must be at most 50 characters")

Address(postalCode, countryCode) ==
  [street1 |-> "123 Main St", city |-> "San Francisco",
   stateOrProvince |-> "CA", postalCode |-> postalCode,
   countryCode |-> countryCode]

Package(weight, length) ==
  [weight |-> weight, weightUnit |-> "lbs", length |-> length,
   width |-> 8, height |-> 6, dimensionUnit |-> "in"]

RateRequest(origin, package) ==
  [origin |-> origin, destination |-> Address("10001", "US"),
   package |-> package, serviceLevel |-> {}]

\* the requests callers submit: the sample request of the tests and
\* variants of it that break one schema rule each
RateRequests ==
  { RateRequest(Address("94102", "US"), Package(5, 10)),
    RateRequest(Address("94102", "US"), Package(0, 10)),
    RateRequest(Address("94102", "US"), Package(-1, 10)),
    RateRequest(Address("94102", "US"), Package(5, 201)),
    RateRequest(Address("94102", "us"), Package(5, 10)),
    RateRequest(Address("9", "US"), Package(5, 10)) }

\* ------------------------------------------------------------------------
\* Rate client and mapper (ups.client.ts)
\* ------------------------------------------------------------------------
Charges(value) == [CurrencyCode |-> "USD", MonetaryValue |-> value]
Service(code, description) == [Code |-> code, Description |-> description]

RatedShipment(service, totalCharges, negotiated, serviceDays) ==
  [Service |-> service, TransportationCharges |-> {Charges("14.00")},
   TotalCharges |-> totalCharges, NegotiatedRateCharges |-> negotiated,
   ServiceDays |-> serviceDays]

Ground == RatedShipment({Service("03", "UPS Ground")}, {Charges("15.50")}, {}, {"5"})
SecondDay == RatedShipment({Service("02", "UPS 2nd Day Air")}, {Charges("45.75")},
                           {Charges("40.00")}, {})
NoService == RatedShipment({}, {Charges("15.50")}, {}, {})

\* the Response member of a rate body
RateStatus(ResponseStatus, TransactionReference) ==
  [ResponseStatus |-> ResponseStatus,
   TransactionReference |-> TransactionReference]

ResponseOk ==
  RateStatus({[Code |-> "1", Description |-> "Success"]},
             {[CustomerContext |-> {"ctx"}]})

\* a rate endpoint body that is an object with a RateResponse member
RateBody(Response, RatedShipments) ==
  [type |-> "object",
   RateResponse |-> {[Response |-> Response,
                      RatedShipment |-> RatedShipments]}]

\* a rate endpoint body with a complete Response member
RateObject(RatedShipments) == RateBody({ResponseOk}, RatedShipments)

\* a body without a RateResponse member
EmptyObject == [type |-> "object", RateResponse |-> {}]

GoodRateText == "{\"RateResponse\":{\"Response\":{},\"RatedShipment\":[]}}"

\* JSON.parse on the rate texts the model sends
JSONparseRate(text) ==
  IF text = GoodRateText
  THEN [ok |-> TRUE, value |-> RateBody({RateStatus({}, {})}, {<<>>})]
  ELSE [ok |-> FALSE, error |-> SyntaxError(text)]

RateBodies ==
  { RateObject({<<Ground>>}),
    RateObject({<<Ground, SecondDay>>}),
    RateObject({<<>>}),
    RateObject({}),
    RateObject({<<NoService>>}),
    RateBody({}, {<<Ground>>}),
    EmptyObject,
    StringBody(GoodRateText),
    StringBody("invalid json{"),
    StringBody(LongText) }

\* upsRateResponseSchema (validateUpsRateResponseSafe): does the parsed
\* body have the structure of a rate response
upsRateResponseSchema(response) ==
  /\ response.type = "object"
  /\ Member(response, "RateResponse") # {}
  /\ LET r == TheOne(response.RateResponse)
     IN /\ r.Response # {}
        /\ TheOne(r.Response).ResponseStatus # {}
        /\ \A st \in TheOne(r.Response).ResponseStatus :
              Len(st.Code) >= 1 /\ Len(st.Description) >= 1
        /\ \A shipments \in r.RatedShipment :
              \A i \in 1..Len(shipments) :
                /\ shipments[i].Service # {}
                /\ \A sv \in shipments[i].Service :
                      Len(sv.Code) >= 1 /\ Len(sv.Description) >= 1
                /\ shipments[i].TransportationCharges # {}
                /\ shipments[i].TotalCharges # {}

RateResponses ==
  { Rejected(e) : e \in Exceptions }
    \cup { Resolved(200, b) : b \in RateBodies }
    \cup { Resolved(s, IF s = 429 THEN RateLimitObject ELSE ErrorObject) :
             s \in ErrorStatuses }

\* the catch clause of UpsClientImpl.getRates
getRatesCatch(error) ==
  IF /\ error.isError
     /\ LET errorMessage == toLowerCase(error.message)
            errorName == toLowerCase(error.name)
        IN \/ Includes(errorMessage, "timeout")
           \/ Includes(errorMessage, "etimedout")
           \/ Includes(errorMessage, "econnrefused")
           \/ Includes(errorMessage, "enotfound")
           \/ Includes(errorMessage, "connection refused")
           \/ Includes(errorMessage, "dns lookup")
           \/ Includes(errorName, "timeout")
           \/ Includes(errorName, "econnrefused")
           \/ Includes(errorName, "enotfound")
  THEN Fail(networkErrorToCarrierError(error, {"ups"}, DEFAULT_TIMEOUT))
  ELSE Fail(unknownErrorToCarrierError(error, {"ups"}, "Failed to get rates"))

\* UpsClientImpl.getRates from the point where the transport call settles
clientGetRates(response) ==
  IF response.kind = "throw" THEN getRatesCatch(response.error)
  ELSE IF response.status < 200 \/ response.status >= 300
  THEN Fail(httpErrorToCarrierError(response.status, response.statusText,
                                    response.body, {"ups"}))
  ELSE
    LET parsed == IF response.body.type = "string"
                  THEN JSONparseRate(response.body.text)
                  ELSE [ok |-> TRUE, value |-> response.body]
    IN IF ~parsed.ok
       THEN Fail(jsonParseErrorToCarrierError(
                   parsed.error, {"ups"}, JSONstringify(response.body.text)))
       ELSE Ok(parsed.value)

\* parseFloat on the amounts the model sends, in cents
parseFloat(text) ==
  CASE text = "15.50" -> 1550
    [] text = "45.75" -> 4575
    [] text = "40.00" -> 4000
    [] text = "14.00" -> 1400

\* parseInt(text, 10) on the day counts the model sends
parseInt(text) == CASE text = "5" -> 5

\* the service description taken for the service code
toRateQuote_LevelAsCode(shipment) ==
  [carrier |-> "ups",
   serviceLevel |-> TheOne(shipment.Service).Description,
   serviceCode |-> TheOne(shipment.Service).Description,
   totalCost |-> parseFloat(TheOne(shipment.TransportationCharges).MonetaryValue),
   currency |-> TheOne(shipment.TransportationCharges).CurrencyCode,
   estimatedTransitDays |-> {}]

\* the body of the loop of toRateResponse
toRateQuote(shipment) ==
  LET totalCharges == IF shipment.TotalCharges # {}
                      THEN TheOne(shipment.TotalCharges)
                      ELSE TheOne(shipment.TransportationCharges)
      cost == parseFloat(IF shipment.NegotiatedRateCharges # {}
                         THEN TheOne(shipment.NegotiatedRateCharges).MonetaryValue
                         ELSE totalCharges.MonetaryValue)
  IN [carrier |-> "ups",
      serviceLevel |-> TheOne(shipment.Service).Description,
      serviceCode |-> TheOne(shipment.Service).Code,
      totalCost |-> cost,
      currency |-> totalCharges.CurrencyCode,
      estimatedTransitDays |-> {parseInt(d) : d \in shipment.ServiceDays}]

\* the TypeError of reading member `name` of undefined
TypeError(name) ==
  Thrown(TRUE, "TypeError",
         "Cannot read properties of undefined (reading '" \o name \o "')")

\* UpsMapperImpl.toRateResponse; reading a member of undefined throws
toRateResponse(response) ==
  IF Member(response, "RateResponse") = {}
  THEN [threw |-> TRUE, error |-> TypeError("RatedShipment")]
  ELSE LET r == TheOne(response.RateResponse)
           shipments == IF r.RatedShipment = {} THEN <<>>
                        ELSE TheOne(r.RatedShipment)
       IN IF \E i \in 1..Len(shipments) : shipments[i].Service = {}
          THEN [threw |-> TRUE, error |-> TypeError("Description")]
          ELSE IF r.Response = {}
          THEN [threw |-> TRUE, error |-> TypeError("TransactionReference")]
          ELSE [threw |-> FALSE,
                value |-> [quotes |-> [i \in 1..Len(shipments) |->
                                         toRateQuote(shipments[i])],
                           requestId |->
                             UNION {t.CustomerContext :
                                      t \in TheOne(r.Response).TransactionReference}]]

\* ------------------------------------------------------------------------
\* Carrier gateway (ups.service.ts)
\* ------------------------------------------------------------------------
\* the error passed on as it came
stampCarrier_Keep(error) == error

\* `{ ...error, carrier: this.carrierId }`
stampCarrier(error) == [error EXCEPT !.carrier = {carrierId}]

\* getRates step 1, when validateRateRequestSafe fails
validationFailure(request) ==
  Fail(createValidationError(
         formatValidationError(rateRequestIssues(request)),
         [validationErrors |-> rateRequestIssues(request)]))

\* getRates step 2, after `await this.auth.getValidToken()`: return the
\* token error, or go on to the rate call
afterToken(tokenRes) ==
  IF ~tokenRes.success
  THEN [return |-> TRUE, result |-> Fail(stampCarrier(tokenRes.error))]
  ELSE [return |-> FALSE, result |-> None]

\* getRates steps 4 and 5, after `await this.client.getRates(...)`
afterRates(apiResult) ==
  IF ~apiResult.success THEN Fail(stampCarrier(apiResult.error))
  ELSE LET domainResponse == toRateResponse(apiResult.data)
       IN IF domainResponse.threw
          THEN Fail(unknownErrorToCarrierError(domainResponse.error,
                                               {carrierId},
                                               "Failed to get UPS rates"))
          ELSE Ok(domainResponse.value)

\* the access token sent without its token type
authorization_NoScheme(token) == token.accessToken

\* the Authorization header of the rate call
authorization(token) == token.tokenType \o " " \o token.accessToken

\* ------------------------------------------------------------------------
\* Operations
\* ------------------------------------------------------------------------
TokenCall(c) == [caller |-> c, endpoint |-> "token"]
RateCall(c) == [caller |-> c, endpoint |-> "rate"]

Init ==
  /\ now = 0
  /\ ticks = 0
  /\ calls = 0
  /\ heap = <<>>
  /\ cachedToken = 0
  /\ wire = {}
  /\ pc = [c \in Callers |-> "idle"]
  /\ op = [c \in Callers |-> "none"]
  /\ req = [c \in Callers |-> None]
  /\ rateAuth = [c \in Callers |-> ""]
  /\ tokenPosts = [c \in Callers |-> 0]
  /\ ratePosts = [c \in Callers |-> 0]
  /\ startKind = [c \in Callers |-> "none"]
  /\ sinceClear = "none"
  /\ afterClear = [c \in Callers |-> "none"]
  /\ tokenFailed = FALSE
  /\ afterFailure = [c \in Callers |-> FALSE]
  /\ last = None

\* how the cache looks to a getValidToken call that starts now
CacheKind ==
  IF cachedToken = 0 THEN "absent"
  ELSE IF heap[cachedToken].expiresAt > now + 300000 THEN "valid"
  ELSE "stale"

\* the record of a step in which getValidToken and/or getRates returned to
\* caller c.  `fns` names the functions that returned; the fields of the
\* other function are None.  rq: request, k: startKind, ac: afterClear,
\* af: afterFailure, rv: token response, tr: token result, tp: token posts,
\* rr: rate response, rs: getRates result, rp: rate posts, h: header.
Returned(c, o, fns, rq, k, ac, af, rv, tr, tp, rr, rs, rp, h) ==
  [caller |-> c, op |-> o, returned |-> fns, req |-> rq,
   startKind |-> k, afterClear |-> ac, afterFailure |-> af,
   recv |-> rv, tokenResult |-> tr, tokenPosts |-> tp,
   recvRate |-> rr, result |-> rs, ratePosts |-> rp,
   rateAuth |-> h, at |-> now,
   cachedBefore |-> cachedToken, heapBefore |-> heap]

\* the invocation of caller c is over
Finish(c) ==
  /\ pc' = [pc EXCEPT ![c] = "idle"]
  /\ op' = [op EXCEPT ![c] = "none"]
  /\ req' = [req EXCEPT ![c] = None]
  /\ rateAuth' = [rateAuth EXCEPT ![c] = ""]
  /\ tokenPosts' = [tokenPosts EXCEPT ![c] = 0]
  /\ ratePosts' = [ratePosts EXCEPT ![c] = 0]
  /\ startKind' = [startKind EXCEPT ![c] = "none"]
  /\ afterClear' = [afterClear EXCEPT ![c] = "none"]
  /\ afterFailure' = [afterFailure EXCEPT ![c] = FALSE]

\* the invocation of caller c awaits its token endpoint call
AwaitToken(c, o, request, d) ==
  /\ pc' = [pc EXCEPT ![c] = "awaitToken"]
  /\ op' = [op EXCEPT ![c] = o]
  /\ req' = [req EXCEPT ![c] = request]
  /\ wire' = IF d.post THEN wire \cup {TokenCall(c)} ELSE wire
  /\ tokenPosts' = [tokenPosts EXCEPT ![c] = IF d.post THEN 1 ELSE 0]
  /\ startKind' = [startKind EXCEPT ![c] = CacheKind]
  /\ afterClear' = [afterClear EXCEPT ![c] = sinceClear]
  /\ afterFailure' = [afterFailure EXCEPT ![c] = tokenFailed]
  /\ UNCHANGED <<rateAuth, ratePosts>>

\* client.getRates issues the rate call of caller c with credential `ref`
AwaitRate(c, request, ref, objects, tPosts, onWire) ==
  /\ pc' = [pc EXCEPT ![c] = "awaitRate"]
  /\ op' = [op EXCEPT ![c] = "getRates"]
  /\ req' = [req EXCEPT ![c] = request]
  /\ wire' = onWire \cup {RateCall(c)}
  /\ rateAuth' = [rateAuth EXCEPT ![c] = authorization(objects[ref])]
  /\ tokenPosts' = [tokenPosts EXCEPT ![c] = tPosts]
  /\ ratePosts' = [ratePosts EXCEPT ![c] = 1]
  /\ startKind' = [startKind EXCEPT ![c] = "none"]
  /\ afterClear' = [afterClear EXCEPT ![c] = "none"]
  /\ afterFailure' = [afterFailure EXCEPT ![c] = FALSE]

\* the values the clock can take
RECURSIVE ClocksAfter(_)
ClocksAfter(n) ==
  IF n = 0 THEN {0}
  ELSE ClocksAfter(n - 1) \cup {t + d : t \in ClocksAfter(n - 1), d \in TickSteps}

Clocks == ClocksAfter(MaxTicks)

\* the pure functions of the handlers, tabulated over the inputs of the model
acquireTokenOf == [r \in TokenResponses |-> [t \in Clocks |-> acquireToken(r, t)]]
getRatesOf == [r \in RateResponses |-> afterRates(clientGetRates(r))]
ValidRequests == {r \in RateRequests : validateRateRequestSafe(r)}

\* callers are interchangeable: an invocation takes the first free slot
\* (0 when every caller is inside an invocation)
NextCaller ==
  IF \A c \in Callers : pc[c] # "idle" THEN 0
  ELSE CHOOSE c \in Callers :
         pc[c] = "idle" /\ \A b \in Callers : pc[b] = "idle" => c <= b

\* a caller invokes getValidToken() directly
GetValidToken(c) ==
  /\ last = None
  /\ c = NextCaller
  /\ calls < MaxCalls
  /\ calls' = calls + 1
  /\ sinceClear' = "none"
  /\ LET d == getValidTokenSync(cachedToken, heap, now)
     IN IF d.hit
        THEN /\ last' = Returned(c, "getValidToken", {"getValidToken"}, None,
                                 CacheKind, sinceClear, tokenFailed, None,
                                 d.result, 0, None, None, 0, "")
             /\ tokenFailed' = (tokenFailed \/ ~d.result.success)
             /\ UNCHANGED <<wire, pc, op, req, rateAuth,
                            tokenPosts, ratePosts, startKind, afterClear,
                            afterFailure>>
        ELSE /\ AwaitToken(c, "getValidToken", None, d)
             /\ last' = None
             /\ UNCHANGED tokenFailed
  /\ UNCHANGED <<now, ticks, heap, cachedToken>>

\* a caller invokes getRates(request): validation, then getValidToken up to
\* its first await, then (on a cache hit) the rate call
GetRates(c, request) ==
  /\ last = None
  /\ c = NextCaller
  /\ calls < MaxCalls
  /\ calls' = calls + 1
  /\ IF request \notin ValidRequests
     THEN /\ last' = Returned(c, "getRates", {"getRates"}, request, "none",
                              "none", FALSE, None, None, 0, None,
                              validationFailure(request), 0, "")
          /\ UNCHANGED <<wire, pc, op, req, rateAuth, tokenPosts,
                         ratePosts, startKind, sinceClear, afterClear,
                         tokenFailed, afterFailure>>
     ELSE /\ sinceClear' = "none"
          /\ LET d == getValidTokenSync(cachedToken, heap, now)
             IN IF d.hit
                THEN /\ tokenFailed' = (tokenFailed \/ ~d.result.success)
                     /\ IF afterToken(d.result).return
                        THEN /\ last' = Returned(c, "getRates",
                                          {"getValidToken", "getRates"},
                                          request, CacheKind, sinceClear,
                                          tokenFailed, None, d.result, 0, None,
                                          afterToken(d.result).result, 0, "")
                             /\ UNCHANGED <<wire, pc, op, req, rateAuth,
                                            tokenPosts, ratePosts,
                                            startKind, afterClear,
                                            afterFailure>>
                        ELSE /\ last' = Returned(c, "getRates",
                                          {"getValidToken"}, request,
                                          CacheKind, sinceClear, tokenFailed,
                                          None, d.result, 0, None, None, 0, "")
                             /\ AwaitRate(c, request, d.result.data, heap, 0,
                                          wire)
                ELSE /\ AwaitToken(c, "getRates", request, d)
                     /\ last' = None
                     /\ UNCHANGED tokenFailed
  /\ UNCHANGED <<now, ticks, heap, cachedToken>>

\* the token endpoint call of caller c settles with `response`:
\* acquireToken finishes, getValidToken writes the cache and returns, and
\* a getRates invocation goes on to the rate call or returns the error.
\* Continuations run in the order their promises settle and the chains of
\* two invocations have the same length, so each chain is one step.
TokenSettles(c, response) ==
  /\ last = None
  /\ pc[c] = "awaitToken"
  /\ TokenCall(c) \in wire
  /\ LET r == acquireTokenOf[response][now]
         n == IF r.success THEN newToken(heap, cachedToken, r.data)
              ELSE [objects |-> heap, ref |-> 0]
         tr == IF r.success THEN Ok(n.ref) ELSE r
         onWire == wire \ {TokenCall(c)}
     IN /\ heap' = n.objects
        /\ cachedToken' = cacheAfterAcquire(cachedToken, r.success, n.ref)
        /\ tokenFailed' = (tokenFailed \/ ~r.success)
        /\ sinceClear' = IF r.success /\ sinceClear = "clean" THEN "dirty"
                         ELSE sinceClear
        /\ IF op[c] = "getValidToken"
           THEN /\ last' = Returned(c, op[c], {"getValidToken"}, None,
                                    startKind[c], afterClear[c],
                                    afterFailure[c], response, tr,
                                    tokenPosts[c], None, None, 0, "")
                /\ wire' = onWire
                /\ Finish(c)
           ELSE IF afterToken(tr).return
                THEN /\ last' = Returned(c, op[c],
                                    {"getValidToken", "getRates"}, req[c],
                                    startKind[c], afterClear[c],
                                    afterFailure[c], response, tr,
                                    tokenPosts[c], None,
                                    afterToken(tr).result, ratePosts[c], "")
                     /\ wire' = onWire
                     /\ Finish(c)
                ELSE /\ last' = Returned(c, op[c], {"getValidToken"}, req[c],
                                    startKind[c], afterClear[c],
                                    afterFailure[c], response, tr,
                                    tokenPosts[c], None, None, 0, "")
                     /\ AwaitRate(c, req[c], n.ref, n.objects, tokenPosts[c],
                                  onWire)
  /\ UNCHANGED <<now, ticks, calls>>

\* a retryable failure of the rate call is followed by one more attempt
RateSettles_Retry(c, response) ==
  /\ last = None
  /\ pc[c] = "awaitRate"
  /\ RateCall(c) \in wire
  /\ IF /\ ~getRatesOf[response].success
        /\ isRetryableError(getRatesOf[response].error)
        /\ ratePosts[c] < 2
     THEN /\ ratePosts' = [ratePosts EXCEPT ![c] = ratePosts[c] + 1]
          /\ last' = None
          /\ UNCHANGED <<wire, pc, op, req, rateAuth, tokenPosts, startKind,
                         afterClear, afterFailure>>
     ELSE /\ wire' = wire \ {RateCall(c)}
          /\ last' = Returned(c, op[c], {"getRates"}, req[c], "none", "none",
                              FALSE, None, None, tokenPosts[c], response,
                              getRatesOf[response], ratePosts[c],
                              rateAuth[c])
          /\ Finish(c)
  /\ UNCHANGED <<now, ticks, calls, heap, cachedToken, sinceClear,
                 tokenFailed>>

\* a token the rate endpoint rejects (401, 403) is dropped from the cache
RateSettles_Evict(c, response) ==
  /\ last = None
  /\ pc[c] = "awaitRate"
  /\ RateCall(c) \in wire
  /\ wire' = wire \ {RateCall(c)}
  /\ last' = Returned(c, op[c], {"getRates"}, req[c], "none", "none", FALSE,
                      None, None, tokenPosts[c], response,
                      getRatesOf[response], ratePosts[c],
                      rateAuth[c])
  /\ Finish(c)
  /\ cachedToken' = IF /\ ~getRatesOf[response].success
                       /\ getRatesOf[response].error.severity = "AUTH_ERROR"
                    THEN 0 ELSE cachedToken
  /\ UNCHANGED <<now, ticks, calls, heap, sinceClear, tokenFailed>>

\* the rate endpoint call of caller c settles with `response`
RateSettles(c, response) ==
  /\ last = None
  /\ pc[c] = "awaitRate"
  /\ RateCall(c) \in wire
  /\ wire' = wire \ {RateCall(c)}
  /\ last' = Returned(c, op[c], {"getRates"}, req[c], "none", "none", FALSE,
                      None, None, tokenPosts[c], response,
                      getRatesOf[response], ratePosts[c],
                      rateAuth[c])
  /\ Finish(c)
  /\ UNCHANGED <<now, ticks, calls, heap, cachedToken, sinceClear,
                 tokenFailed>>

\* clearCache()
ClearCache ==
  /\ last = None
  /\ cachedToken' = clearCacheValue(cachedToken)
  /\ heap' = Collect(heap, clearCacheValue(cachedToken))
  /\ sinceClear' = "clean"
  /\ last' = None
  /\ UNCHANGED <<now, ticks, calls, wire, pc, op, req, rateAuth, tokenPosts,
                 ratePosts, startKind, afterClear, tokenFailed, afterFailure>>

\* the clock advances
Tick(d) ==
  /\ last = None
  /\ ticks < MaxTicks
  /\ ticks' = ticks + 1
  /\ now' = now + d
  /\ last' = None
  /\ UNCHANGED <<calls, heap, cachedToken, wire, pc, op, req, rateAuth,
                 tokenPosts, ratePosts, startKind, sinceClear, afterClear,
                 tokenFailed, afterFailure>>

\* the promise of the step just taken resolves: the continuation of its
\* awaiter runs before the event loop takes any other task, and a
\* credential the step replaced is reclaimed
Resume ==
  /\ last # None
  /\ last' = None
  /\ heap' = Collect(heap, cachedToken)
  /\ UNCHANGED <<now, ticks, calls, cachedToken, wire, pc, op, req,
                 rateAuth, tokenPosts, ratePosts, startKind,
                 sinceClear, afterClear, tokenFailed, afterFailure>>

Next ==
  \/ \E c \in Callers : GetValidToken(c)
  \/ \E c \in Callers : \E request \in RateRequests : GetRates(c, request)
  \/ \E c \in Callers : \E response \in TokenResponses : TokenSettles(c, response)
  \/ \E c \in Callers : \E response \in RateResponses : RateSettles(c, response)
  \/ ClearCache
  \/ \E d \in TickSteps : Tick(d)
  \/ Resume

Spec == Init /\ [][Next]_vars

\* Whether an invocation returns does not depend on what a response
\* carries beyond the branch it selects, so the behaviours examined for
\* termination draw one response for each way a call can settle: a
\* rejection on timeout, an accepted body (a credential that one advance
\* of the clock makes stale) and an HTTP failure.
LiveTokenResponses ==
  { Rejected(Thrown(TRUE, "Error", "Request timeout after 30000ms")),
    Resolved(200, TokenObject({"T2"}, {"Bearer"}, {400})),
    Resolved(401, ErrorObject) }

LiveRateResponses ==
  { Rejected(Thrown(TRUE, "Error", "Request timeout after 30000ms")),
    Resolved(200, RateObject({<<Ground>>})),
    Resolved(429, RateLimitObject) }

LiveRequests ==
  { RateRequest(Address("94102", "US"), Package(5, 10)),
    RateRequest(Address("94102", "US"), Package(0, 10)) }

NextLive ==
  \/ \E c \in Callers : GetValidToken(c)
  \/ \E c \in Callers : \E request \in LiveRequests : GetRates(c, request)
  \/ \E c \in Callers : \E response \in LiveTokenResponses : TokenSettles(c, response)
  \/ \E c \in Callers : \E response \in LiveRateResponses : RateSettles(c, response)
  \/ ClearCache
  \/ \E d \in TickSteps : Tick(d)
  \/ Resume

\* Every transport call settles: FetchHttpClient.post aborts the request
\* when its timer fires and rejects, so each call on the wire responds or
\* rejects; and the continuation of a settled promise runs.
Fairness ==
  /\ \A c \in Callers :
       /\ WF_vars(\E response \in LiveTokenResponses : TokenSettles(c, response))
       /\ WF_vars(\E response \in LiveRateResponses : RateSettles(c, response))
  /\ WF_vars(Resume)

SpecLive == Init /\ [][NextLive]_vars /\ Fairness

\* ------------------------------------------------------------------------
\* The error classifiers on their own (errors.ts): an input is drawn, then
\* the function is applied to it
\* ------------------------------------------------------------------------
\* statuses handed to httpStatusToSeverity
StatusInputs == (0 - NegStatuses)..MaxStatus

\* codes of the errors handed to isRetryableError: the codes the error
\* constructors set, codes of HTTP failures, and the code of token expiry
\* in both letter cases
ErrorCodes ==
  {"VALIDATION_ERROR", "AUTH_ERROR", "NETWORK_ERROR", "RATE_LIMIT_ERROR",
   "UNKNOWN_ERROR", "JSON_PARSE_ERROR", "HTTP_401", "HTTP_429", "HTTP_500",
   "TOKEN_EXPIRED", "token_expired", ""}

ErrorInputs ==
  { CarrierError(severity, "message", code, carrier, {}, None, {}) :
      severity \in Severities, code \in ErrorCodes,
      carrier \in {{}, {"ups"}} }

InitErrors ==
  /\ now = 0
  /\ ticks = 0
  /\ calls = 0
  /\ heap = <<>>
  /\ cachedToken = 0
  /\ wire = {}
  /\ pc = [c \in Callers |-> "idle"]
  /\ op = [c \in Callers |-> "none"]
  /\ req = [c \in Callers |-> None]
  /\ rateAuth = [c \in Callers |-> ""]
  /\ tokenPosts = [c \in Callers |-> 0]
  /\ ratePosts = [c \in Callers |-> 0]
  /\ startKind = [c \in Callers |-> "none"]
  /\ sinceClear = "none"
  /\ afterClear = [c \in Callers |-> "none"]
  /\ tokenFailed = FALSE
  /\ afterFailure = [c \in Callers |-> FALSE]
  /\ last \in { [fn |-> "httpStatusToSeverity", status |-> s] :
                   s \in StatusInputs }
              \cup { [fn |-> "isRetryableError", error |-> e] :
                       e \in ErrorInputs }

\* httpStatusToSeverity(status) is called and returns
HttpStatusToSeverity ==
  /\ last.fn = "httpStatusToSeverity"
  /\ "severity" \notin DOMAIN last
  /\ last' = [fn |-> last.fn, status |-> last.status,
              severity |-> httpStatusToSeverity(last.status)]
  /\ UNCHANGED <<now, ticks, calls, heap, cachedToken, wire, pc, op, req,
                 rateAuth, tokenPosts, ratePosts, startKind, sinceClear,
                 afterClear, tokenFailed, afterFailure>>

\* isRetryableError(error) is called and returns
IsRetryableError ==
  /\ last.fn = "isRetryableError"
  /\ "retryable" \notin DOMAIN last
  /\ last' = [fn |-> last.fn, error |-> last.error,
              retryable |-> isRetryableError(last.error)]
  /\ UNCHANGED <<now, ticks, calls, heap, cachedToken, wire, pc, op, req,
                 rateAuth, tokenPosts, ratePosts, startKind, sinceClear,
                 afterClear, tokenFailed, afterFailure>>

NextErrors ==
  \/ HttpStatusToSeverity
  \/ IsRetryableError

SpecErrors == InitErrors /\ [][NextErrors]_vars

\* ------------------------------------------------------------------------
\* Properties
\* ------------------------------------------------------------------------
\* the latest step returned from getValidToken (called directly or by getRates)
TokenReturned == "returned" \in DOMAIN last /\ "getValidToken" \in last.returned

\* the latest step returned from getRates
RatesReturned == "returned" \in DOMAIN last /\ "getRates" \in last.returned

TokenCallsOnWire == {w \in wire : w.endpoint = "token"}

\* a token endpoint response the exchange accepts: 2xx and a body with a
\* non-empty access_token and token_type and a positive expires_in
WellFormed(response) ==
  /\ response.kind = "response"
  /\ response.status >= 200 /\ response.status <= 299
  /\ \/ /\ response.body.type = "object"
        /\ response.body.access_token \notin {{}, {""}}
        /\ response.body.token_type \notin {{}, {""}}
        /\ response.body.expires_in # {}
        /\ \A n \in response.body.expires_in : n >= 1
     \/ /\ response.body.type = "string"
        /\ response.body.text = GoodTokenText

\* the credential a well-formed response received at time t stands for
Expected(response, t) ==
  IF response.body.type = "string"
  THEN UpsToken("T1", "Bearer", t + 3600 * 1000)
  ELSE UpsToken(TheOne(response.body.access_token),
                TheOne(response.body.token_type),
                t + TheOne(response.body.expires_in) * 1000)

\* C1: a getValidToken call that finds a cached credential with
\* expiresAt > now + 5 minutes returns exactly that credential as a success,
\* issues no transport call and leaves the cached credential unchanged.
C1_TokenReuse ==
  (TokenReturned /\ last.startKind = "valid") =>
    /\ last.tokenResult = Ok(last.cachedBefore)
    /\ last.tokenPosts = 0
    /\ last.recv = None
    /\ TokenCall(last.caller) \notin wire
    /\ cachedToken = last.cachedBefore
    /\ heap = last.heapBefore

\* a call served from the cache while the cached credential was valid
C1_Witness ==
  /\ TokenReturned
  /\ last.startKind = "valid"
  /\ last.tokenResult.success
  /\ last.tokenPosts = 0
  /\ heap[cachedToken].expiresAt > now + 300000

\* C2: a getValidToken call that finds a cached credential with
\* expiresAt <= now + 5 minutes issues exactly one token endpoint call: it
\* has issued one while it waits, and has issued one when it returns.
C2_TokenRefresh ==
  /\ \A c \in Callers :
       (pc[c] = "awaitToken" /\ startKind[c] = "stale") =>
         (tokenPosts[c] = 1 /\ TokenCall(c) \in wire)
  /\ (TokenReturned /\ last.startKind = "stale") =>
       (last.tokenPosts = 1 /\ last.recv # None)

\* a call that found a stale credential has returned after its one exchange
C2_Witness ==
  /\ TokenReturned
  /\ last.startKind = "stale"
  /\ last.tokenPosts = 1
  /\ last.tokenResult.success

BreaksSchema(request) ==
  \/ request.package.weight <= 0
  \/ request.package.weight > 1000
  \/ request.package.length > 200
  \/ request.origin.countryCode = "us"
  \/ request.origin.postalCode = "9"

\* C4: getRates on a request that fails the domain schema returns a
\* VALIDATION failure, issues no transport call (token or rate) and leaves
\* the cached credential unchanged.
C4_ValidationShortCircuit ==
  /\ \A c \in Callers : op[c] = "getRates" => ~BreaksSchema(req[c])
  /\ (RatesReturned /\ BreaksSchema(last.req)) =>
       /\ ~last.result.success
       /\ last.result.error.severity = "VALIDATION_ERROR"
       /\ last.tokenPosts = 0
       /\ last.ratePosts = 0
       /\ \A w \in wire : w.caller # last.caller
       /\ cachedToken = last.cachedBefore
       /\ heap = last.heapBefore

\* a request with a non-positive weight was refused while a credential
\* was cached
C4_Witness ==
  /\ RatesReturned
  /\ last.req.package.weight <= 0
  /\ ~last.result.success
  /\ cachedToken # 0

\* C5: every getValidToken call that passed the validity check with a miss
\* has its own token endpoint call in flight: k waiting calls, k exchanges.
C5_NotSingleFlight ==
  /\ \A c \in Callers :
       pc[c] = "awaitToken" => (TokenCall(c) \in wire /\ tokenPosts[c] = 1)
  /\ Cardinality(TokenCallsOnWire) = Cardinality({c \in Callers : pc[c] = "awaitToken"})

\* two calls wait, each for its own exchange
C5_Witness ==
  /\ Cardinality({c \in Callers : pc[c] = "awaitToken"}) >= 2
  /\ Cardinality(TokenCallsOnWire) >= 2

\* C6: a successful exchange caches a newly constructed credential
\* {accessToken, tokenType, expiresAt = now + expires_in*1000} built from
\* its response, whatever was cached; no existing credential object is ever
\* modified; the cache holds the credential constructed last, or nothing.
C6_LastWriteWins ==
  /\ [][ \A i \in 1..Len(heap) :
            i <= Len(heap') /\ heap'[i] \in {heap[i], None} ]_vars
  /\ [](cachedToken \in {0, Len(heap)})
  /\ []((TokenReturned /\ last.tokenResult.success /\ last.tokenPosts = 1) =>
          /\ cachedToken = last.tokenResult.data
          /\ cachedToken = Len(last.heapBefore) + 1
          /\ heap[cachedToken] = Expected(last.recv, last.at))

\* an exchange that started with nothing cached overwrote the credential a
\* concurrent exchange had cached meanwhile
C6_Witness ==
  /\ TokenReturned
  /\ last.tokenResult.success
  /\ last.tokenPosts = 1
  /\ last.startKind = "absent"
  /\ last.cachedBefore # 0
  /\ cachedToken # last.cachedBefore
  /\ heap[last.cachedBefore] = last.heapBefore[last.cachedBefore]
  /\ heap[last.cachedBefore] # None

\* C7 as stated: a 2xx token response with access_token and token_type and
\* with expires_in absent or zero yields a credential with
\* expiresAt = now + 3600*1000.
C7_DefaultLifetime ==
  (/\ TokenReturned
   /\ last.recv # None
   /\ last.recv.kind = "response"
   /\ last.recv.status = 200
   /\ last.recv.body.type = "object"
   /\ last.recv.body.access_token = {"T1"}
   /\ last.recv.body.token_type = {"Bearer"}
   /\ last.recv.body.expires_in \in {{}, {0}}) =>
    /\ last.tokenResult.success
    /\ heap[last.tokenResult.data].expiresAt = last.at + 3600 * 1000

\* C8: a failure returned by getValidToken comes from the exchange that
\* call performed, and a call whose own exchange is answered well succeeds
\* with the credential of that answer, whatever failed before.
C8_FailuresNotCached ==
  TokenReturned =>
    /\ ~last.tokenResult.success =>
         (last.tokenPosts = 1 /\ last.recv # None /\ ~WellFormed(last.recv))
    /\ (last.recv # None /\ WellFormed(last.recv)) =>
         /\ last.tokenResult.success
         /\ heap[last.tokenResult.data] = Expected(last.recv, last.at)

\* a call that started after a failed call has succeeded
C8_Witness ==
  /\ TokenReturned
  /\ last.afterFailure
  /\ last.tokenPosts = 1
  /\ last.tokenResult.success

\* C9 as stated: after a failed exchange the store holds no credential.
C9_AsStated ==
  (TokenReturned /\ ~last.tokenResult.success) => cachedToken = 0

\* C9: a failed exchange leaves the store as it was: no credential if it
\* held none, and the credential it held (such as the stale one that
\* triggered the refresh) otherwise.
C9_FailureKeepsCache ==
  (TokenReturned /\ ~last.tokenResult.success) =>
    /\ cachedToken = last.cachedBefore
    /\ heap = last.heapBefore

\* the refresh of a stale credential failed and the credential is still
\* cached
C9_Witness ==
  /\ TokenReturned
  /\ ~last.tokenResult.success
  /\ last.startKind = "stale"
  /\ cachedToken # 0
  /\ heap[cachedToken].expiresAt <= now + 300000

\* C10: when getValidToken fails inside getRates, getRates returns that
\* error (same severity, code, httpStatus) with carrier 'ups' and issues no
\* rate endpoint call.
C10_TokenFailureShortCircuit ==
  (/\ TokenReturned
   /\ last.op = "getRates"
   /\ ~last.tokenResult.success) =>
    /\ RatesReturned
    /\ ~last.result.success
    /\ last.result.error.severity = last.tokenResult.error.severity
    /\ last.result.error.code = last.tokenResult.error.code
    /\ last.result.error.httpStatus = last.tokenResult.error.httpStatus
    /\ last.result.error.carrier = {"ups"}
    /\ last.ratePosts = 0
    /\ RateCall(last.caller) \notin wire
    /\ pc[last.caller] = "idle"

\* getRates returned the failure of the token exchange, which carried no
\* carrier of its own
C10_Witness ==
  /\ TokenReturned
  /\ RatesReturned
  /\ ~last.tokenResult.success
  /\ last.tokenResult.error.carrier = {}
  /\ last.result.error.carrier = {"ups"}

\* C11 as stated: every failure returned by getRates, whichever step
\* produced it, has carrier = 'ups'.
C11_CarrierAttribution ==
  (RatesReturned /\ ~last.result.success) =>
    last.result.error.carrier = {carrierId}

StartsWith(text, prefix) ==
  Len(text) >= Len(prefix) /\ SubSeq(text, 1, Len(prefix)) = prefix

\* a rate response on which the mapper reads a member of undefined: a 2xx
\* object body without RateResponse, without Response, or with a rated
\* shipment without Service
MapperThrows(response) ==
  /\ response.kind = "response"
  /\ response.status \in 200..299
  /\ response.body.type = "object"
  /\ \/ response.body.RateResponse = {}
     \/ \E r \in response.body.RateResponse :
          \/ r.Response = {}
          \/ \E shipments \in r.RatedShipment :
               \E i \in 1..Len(shipments) : shipments[i].Service = {}

\* C12: getRates always completes with a Result (a success with data or
\* a failure with a CarrierError), and when an exception is thrown inside
\* it (the mapper reads a member of undefined) the result is a failure
\* with severity UNKNOWN, code UNKNOWN_ERROR, carrier 'ups' and a message
\* that starts with 'Failed to get UPS rates: '.
C12_NoRawException ==
  /\ RatesReturned =>
       IF last.result.success THEN "data" \in DOMAIN last.result
       ELSE /\ last.result.error.severity \in Severities
            /\ Len(last.result.error.code) > 0
  /\ (RatesReturned /\ last.recvRate # None /\ MapperThrows(last.recvRate)) =>
       /\ ~last.result.success
       /\ last.result.error.severity = "UNKNOWN_ERROR"
       /\ last.result.error.code = "UNKNOWN_ERROR"
       /\ last.result.error.carrier = {"ups"}
       /\ StartsWith(last.result.error.message, "Failed to get UPS rates: ")

\* the mapper threw on a body without RateResponse and getRates returned
\* the converted failure
C12_Witness ==
  /\ RatesReturned
  /\ last.recvRate # None
  /\ MapperThrows(last.recvRate)
  /\ ~last.result.success
  /\ last.result.error.message =
       "Failed to get UPS rates: Cannot read properties of undefined (reading 'RatedShipment')"

\* the latest step returned from getRates after a 2xx rate response whose
\* body is an object or a text that parses
ParsedRateResponse ==
  /\ RatesReturned
  /\ last.recvRate # None
  /\ last.recvRate.kind = "response"
  /\ last.recvRate.status \in 200..299
  /\ last.recvRate.body.type = "string" =>
       JSONparseRate(last.recvRate.body.text).ok

\* the parsed body of that response
ParsedRateBody ==
  IF last.recvRate.body.type = "string"
  THEN JSONparseRate(last.recvRate.body.text).value
  ELSE last.recvRate.body

\* C13 as stated: when the rate call returns 2xx with a parseable body
\* that does not satisfy the carrier rate-response schema, getRates returns
\* a failure of severity VALIDATION.
C13_ResponseSchemaCheck ==
  (ParsedRateResponse /\ ~upsRateResponseSchema(ParsedRateBody)) =>
    /\ ~last.result.success
    /\ last.result.error.severity = "VALIDATION_ERROR"

\* the latest step returned from getRates after the rate endpoint answered
\* with a status outside 200..299
RateHttpFailure ==
  /\ RatesReturned
  /\ last.recvRate # None
  /\ last.recvRate.kind = "response"
  /\ last.recvRate.status \notin 200..299

\* the severity the contract assigns to a rate-call status
ContractSeverity(s) ==
  CASE s \in {401, 403} -> "AUTH_ERROR"
    [] s = 429 -> "RATE_LIMIT_ERROR"
    [] s \in 400..499 \ {401, 403, 429} -> "CLIENT_ERROR"
    [] s \in 500..599 -> "SERVER_ERROR"
    [] OTHER -> "UNKNOWN_ERROR"

MalformedToken(response) ==
  /\ response # None
  /\ response.kind = "response"
  /\ response.status \in 200..299
  /\ response.body.type = "string"
  /\ ~JSONparse(response.body.text).ok

MalformedRate(response) ==
  /\ response # None
  /\ response.kind = "response"
  /\ response.status \in 200..299
  /\ response.body.type = "string"
  /\ ~JSONparseRate(response.body.text).ok

\* a failure of severity SERVER and code JSON_PARSE_ERROR whose
\* details.responseText has at most 500 characters
JsonParseFailure(result) ==
  /\ ~result.success
  /\ result.error.severity = "SERVER_ERROR"
  /\ result.error.code = "JSON_PARSE_ERROR"
  /\ result.error.details # None
  /\ Len(result.error.details.responseText) <= 500

\* C15: a 2xx response, from the token endpoint or the rate endpoint, whose
\* body is a text that is not JSON gives a failure of severity SERVER and
\* code JSON_PARSE_ERROR with details.responseText of at most 500
\* characters; in the token exchange the cache is not written.
C15_MalformedPayload ==
  /\ (TokenReturned /\ MalformedToken(last.recv)) =>
       /\ JsonParseFailure(last.tokenResult)
       /\ cachedToken = last.cachedBefore
       /\ heap = last.heapBefore
       /\ RatesReturned => JsonParseFailure(last.result)
  /\ (RatesReturned /\ MalformedRate(last.recvRate)) =>
       JsonParseFailure(last.result)

\* a token exchange answered 200 with a text longer than the limit: the
\* responseText of the failure is cut to 500 characters
C15_Witness ==
  /\ TokenReturned
  /\ MalformedToken(last.recv)
  /\ Len(JSONstringify(last.recv.body.text)) > 500
  /\ Len(last.tokenResult.error.details.responseText) = 500
  /\ cachedToken = last.cachedBefore

\* the transport call rejected with an error whose message or name
\* signals a timeout, a refused connection or a failed DNS lookup, in any
\* letter case
TransportFailure(response) ==
  /\ response # None
  /\ response.kind = "throw"
  /\ response.error.isError
  /\ \E sign \in {"timeout", "etimedout", "econnrefused", "enotfound",
                  "connection refused", "dns lookup"} :
       \/ Includes(toLowerCase(response.error.message), sign)
       \/ Includes(toLowerCase(response.error.name), sign)

\* C16 as stated: a transport call that rejects with a timeout,
\* connection-refused or DNS-failure error gives a failure of severity
\* NETWORK, in the token exchange as in the rate call.
C16_TransportFailureIsNetwork ==
  /\ (TokenReturned /\ TransportFailure(last.recv)) =>
       /\ ~last.tokenResult.success
       /\ last.tokenResult.error.severity = "NETWORK_ERROR"
  /\ (RatesReturned /\ TransportFailure(last.recvRate)) =>
       /\ ~last.result.success
       /\ last.result.error.severity = "NETWORK_ERROR"

\* httpStatusToSeverity has returned
SeverityReturned == "severity" \in DOMAIN last

\* C17: httpStatusToSeverity returns for every integer status exactly one
\* severity: AUTH for 401 and 403, RATE_LIMIT for 429, CLIENT for every
\* other status from 400 to 499, SERVER for every status of 500 and above,
\* UNKNOWN for every status below 400.
C17_ClassifyHttpStatus ==
  SeverityReturned =>
    LET s == last.status
    IN /\ last.severity \in Severities
       /\ s \in {401, 403} <=> last.severity = "AUTH_ERROR"
       /\ s = 429 <=> last.severity = "RATE_LIMIT_ERROR"
       /\ (s >= 400 /\ s < 500 /\ s \notin {401, 403, 429})
            <=> last.severity = "CLIENT_ERROR"
       /\ s >= 500 <=> last.severity = "SERVER_ERROR"
       /\ s < 400 <=> last.severity = "UNKNOWN_ERROR"

\* 403 classified as AUTH
C17_Witness ==
  /\ SeverityReturned
  /\ last.status = 403
  /\ last.severity = "AUTH_ERROR"

\* isRetryableError has returned
RetryableReturned == "retryable" \in DOMAIN last

\* C18: isRetryableError is true for every NETWORK, SERVER and RATE_LIMIT
\* error whatever its code, true for an AUTH error exactly when its code is
\* 'TOKEN_EXPIRED', and false for every CLIENT, VALIDATION and UNKNOWN
\* error whatever its code.
C18_IsRetryable ==
  RetryableReturned =>
    LET e == last.error
    IN /\ e.severity \in {"NETWORK_ERROR", "SERVER_ERROR", "RATE_LIMIT_ERROR"}
            => last.retryable
       /\ e.severity = "AUTH_ERROR"
            => (last.retryable <=> e.code = "TOKEN_EXPIRED")
       /\ e.severity \in {"CLIENT_ERROR", "VALIDATION_ERROR", "UNKNOWN_ERROR"}
            => ~last.retryable

\* an AUTH error that is not a token expiry is not retryable
C18_Witness ==
  /\ RetryableReturned
  /\ last.error.severity = "AUTH_ERROR"
  /\ last.error.code = "HTTP_401"
  /\ ~last.retryable

\* the calls of caller c that are on the wire
CallsOnWire(c) == {w \in wire : w.caller = c}

\* the latest step returned a failure from getRates or from a direct
\* getValidToken
FailureReturned ==
  \/ RatesReturned /\ ~last.result.success
  \/ TokenReturned /\ last.op = "getValidToken" /\ ~last.tokenResult.success

\* C19: one invocation issues at most one token endpoint call and at most
\* one rate endpoint call whatever the outcome, and a failure ends the
\* invocation: nothing of it is left on the wire or waiting.
C19_NoRetries ==
  /\ \A c \in Callers :
       /\ tokenPosts[c] <= 1
       /\ ratePosts[c] <= 1
       /\ Cardinality(CallsOnWire(c)) <= 1
  /\ (TokenReturned \/ RatesReturned) =>
       /\ last.tokenPosts <= 1
       /\ last.ratePosts <= 1
  /\ FailureReturned =>
       /\ pc[last.caller] = "idle"
       /\ CallsOnWire(last.caller) = {}

\* getRates returns a retryable failure (429 on the rate call) after one
\* token endpoint call and one rate endpoint call
C19_Witness ==
  /\ RatesReturned
  /\ last.recvRate # None
  /\ last.recvRate.kind = "response"
  /\ last.recvRate.status = 429
  /\ ~last.result.success
  /\ isRetryableError(last.result.error)
  /\ last.tokenPosts = 1
  /\ last.ratePosts = 1
  /\ pc[last.caller] = "idle"

\* an invocation that is waiting waits on a transport call of its own
OwnCall(c) ==
  /\ pc[c] = "awaitToken" => TokenCall(c) \in wire
  /\ pc[c] = "awaitRate" => RateCall(c) \in wire

\* the operation caller c invoked has just returned its Result to c
InvocationReturned(c) ==
  /\ "returned" \in DOMAIN last
  /\ last.caller = c
  /\ last.op \in last.returned
  /\ pc[c] = "idle"

\* C20: when every transport call settles, every getRates invocation and
\* every getValidToken invocation returns a Result, also with other
\* invocations in flight on the same token store; a waiting invocation
\* waits on its own transport call, never on another invocation.
C20_Termination ==
  \A c \in Callers :
    /\ [] OwnCall(c)
    /\ (pc[c] # "idle") ~> InvocationReturned(c)

\* getRates returns to one caller while another invocation is still
\* waiting for its token exchange
C20_Witness ==
  /\ RatesReturned
  /\ last.recvRate # None
  /\ pc[last.caller] = "idle"
  /\ \E c \in Callers : c # last.caller /\ pc[c] = "awaitToken"

\* C21: the rate call of a getRates invocation is issued in the step in
\* which getValidToken returns a success to that invocation, and its
\* Authorization header is '<tokenType> <accessToken>' of the credential
\* that success carries.
C21_AuthenticateBeforeCall ==
  [][\A c \in Callers :
       (RateCall(c) \notin wire /\ RateCall(c) \in wire') =>
         /\ "returned" \in DOMAIN last'
         /\ last'.caller = c
         /\ last'.op = "getRates"
         /\ "getValidToken" \in last'.returned
         /\ last'.tokenResult.success
         /\ LET token == heap'[last'.tokenResult.data]
            IN rateAuth'[c] = token.tokenType \o " " \o token.accessToken]_vars

\* the rate call of an invocation that exchanged its own token is on the
\* wire with the header of that token
C21_Witness ==
  /\ TokenReturned
  /\ last.op = "getRates"
  /\ last.tokenPosts = 1
  /\ last.tokenResult.success
  /\ RateCall(last.caller) \in wire
  /\ rateAuth[last.caller] = "Bearer T1"
  /\ heap[last.tokenResult.data].accessToken = "T1"

\* C22 as stated: every success of getRates carries at least one quote.
C22_AtLeastOneQuote ==
  (RatesReturned /\ last.result.success) =>
    Len(last.result.data.quotes) >= 1

\* the rated shipments of the parsed body of the rate response
RatedShipments ==
  LET sets == TheOne(ParsedRateBody.RateResponse).RatedShipment
  IN IF sets = {} THEN <<>> ELSE TheOne(sets)

\* the latest step returned from getRates after a 2xx rate response that
\* has the structure of a rate response and holds at least one rated
\* shipment
RatedResponse ==
  /\ ParsedRateResponse
  /\ upsRateResponseSchema(ParsedRateBody)
  /\ Len(RatedShipments) >= 1

\* C23: with a token in hand and a 2xx rate response of k >= 1 rated
\* shipments, getRates returns success with exactly k quotes in the order
\* of the shipments, each with carrier 'ups' and the service code of its
\* shipment.
C23_EndToEndSuccess ==
  RatedResponse =>
    /\ last.result.success
    /\ Len(last.result.data.quotes) = Len(RatedShipments)
    /\ \A i \in 1..Len(RatedShipments) :
         /\ last.result.data.quotes[i].carrier = "ups"
         /\ last.result.data.quotes[i].serviceCode =
              TheOne(RatedShipments[i].Service).Code

\* two rated shipments after the invocation's own token exchange: two
\* quotes, ground first
C23_Witness ==
  /\ RatedResponse
  /\ last.tokenPosts = 1
  /\ Len(RatedShipments) = 2
  /\ Len(last.result.data.quotes) = 2
  /\ last.result.data.quotes[1].serviceCode = "03"
  /\ last.result.data.quotes[2].serviceCode = "02"

\* the latest step returned from getValidToken after the token endpoint
\* answered 2xx with an object without access_token
MissingAccessToken ==
  /\ TokenReturned
  /\ last.recv # None
  /\ last.recv.kind = "response"
  /\ last.recv.status \in 200..299
  /\ last.recv.body.type = "object"
  /\ Member(last.recv.body, "access_token") = {}

\* C24 as stated: a 2xx token response without access_token makes
\* getValidToken return a failure of severity AUTH_ERROR whose message
\* reports access_token, and nothing is cached.
C24_MissingTokenFields ==
  MissingAccessToken =>
    /\ ~last.tokenResult.success
    /\ last.tokenResult.error.severity = "AUTH_ERROR"
    /\ Includes(last.tokenResult.error.message, "access_token")
    /\ cachedToken = last.cachedBefore

\* the token endpoint answered, and the answer is what failed: a status
\* outside 200..299, a 2xx text that is not JSON, or a 2xx body that fails
\* the token schema
TokenResponseFailed(response) ==
  /\ response # None
  /\ response.kind = "response"
  /\ \/ response.status \notin 200..299
     \/ MalformedToken(response)
     \/ ~WellFormed(response)

\* the rate endpoint answered with a status outside 200..299 or with a 2xx
\* text that is not JSON
RateResponseFailed(response) ==
  /\ response # None
  /\ response.kind = "response"
  /\ \/ response.status \notin 200..299
     \/ MalformedRate(response)

\* severity and code are set, and httpStatus is set exactly when
\* `fromResponse`
ErrorShape(error, fromResponse) ==
  /\ error.severity \in Severities
  /\ Len(error.code) >= 1
  /\ error.httpStatus # {} <=> fromResponse

\* C25 as stated: every error getValidToken or getRates returns has
\* severity and code set, and has httpStatus set if and only if the failure
\* came from a response of the token or rate endpoint.
C25_HttpStatusIffResponse ==
  /\ (TokenReturned /\ ~last.tokenResult.success) =>
       ErrorShape(last.tokenResult.error, TokenResponseFailed(last.recv))
  /\ (RatesReturned /\ ~last.result.success) =>
       ErrorShape(last.result.error,
                  \/ TokenResponseFailed(last.recv)
                  \/ RateResponseFailed(last.recvRate))

\* an error that is not a token expiry and, when of severity AUTH, is not
\* retryable
NotTokenExpiry(error) ==
  /\ error.code # "TOKEN_EXPIRED"
  /\ error.severity = "AUTH_ERROR" => ~isRetryableError(error)

\* C26: no error returned by getValidToken or getRates has code
\* 'TOKEN_EXPIRED', so every AUTH error they return is not retryable.
C26_TokenExpiredUnreachable ==
  /\ (TokenReturned /\ ~last.tokenResult.success) =>
       NotTokenExpiry(last.tokenResult.error)
  /\ (RatesReturned /\ ~last.result.success) =>
       NotTokenExpiry(last.result.error)

\* a 401 from the token endpoint: an AUTH error that is not retryable
C26_Witness ==
  /\ TokenReturned
  /\ last.recv # None
  /\ last.recv.kind = "response"
  /\ last.recv.status = 401
  /\ last.tokenResult.error.severity = "AUTH_ERROR"
  /\ last.tokenResult.error.code = "HTTP_401"
  /\ ~isRetryableError(last.tokenResult.error)

\* the latest step returned a failure from getRates after its rate call
\* settled
RateCallFailed ==
  /\ RatesReturned
  /\ last.recvRate # None
  /\ ~last.result.success

\* the cache holds a credential that is valid now
CacheValid == cachedToken # 0 /\ isTokenValid(heap[cachedToken], now)

\* C27: a getRates that fails at the rate call, with 401 or 403 as with
\* anything else, leaves the token store as it was; while the cached
\* credential is valid, the getValidToken of a following getRates serves
\* that credential and posts nothing.
C27_RateFailureKeepsStore ==
  RateCallFailed =>
    /\ cachedToken = last.cachedBefore
    /\ heap = last.heapBefore
    /\ CacheValid =>
         getValidTokenSync(cachedToken, heap, now) =
           [hit |-> TRUE, post |-> FALSE, result |-> Ok(cachedToken)]

\* the rate endpoint answered 403 and the credential is still cached and
\* valid
C27_Witness ==
  /\ RateCallFailed
  /\ last.recvRate.kind = "response"
  /\ last.recvRate.status = 403
  /\ CacheValid
  /\ cachedToken = last.cachedBefore
  /\ last.rateAuth = authorization(heap[cachedToken])

\* the latest step returned from a getValidToken whose own acquisition
\* exchange failed
AcquisitionFailed ==
  /\ TokenReturned
  /\ last.tokenPosts = 1
  /\ last.recv # None
  /\ ~last.tokenResult.success

\* C28: a getValidToken whose acquisition exchange fails writes nothing to
\* the cached credential: the cache refers after the call to the
\* credential it referred to just before the exchange settled, be it none,
\* a stale one, or one a concurrent acquisition wrote meanwhile.
C28_FailedAcquisitionNoWrite ==
  AcquisitionFailed =>
    /\ (last.cachedBefore = 0) <=> (cachedToken = 0)
    /\ last.cachedBefore # 0 =>
         /\ cachedToken # 0
         /\ heap[cachedToken] = last.heapBefore[last.cachedBefore]

\* the call found the cache empty, its exchange failed, and the cache holds
\* the credential a concurrent acquisition wrote while the call was waiting
C28_Witness ==
  /\ AcquisitionFailed
  /\ last.startKind = "absent"
  /\ cachedToken # 0
  /\ heap[cachedToken] # None
  /\ isTokenValid(heap[cachedToken], now)

\* a token response the exchange accepts whose lifetime is no longer than
\* the refresh buffer
ShortLived(response) ==
  /\ response # None
  /\ WellFormed(response)
  /\ response.body.type = "object"
  /\ TheOne(response.body.expires_in) * 1000 <= TOKEN_REFRESH_BUFFER_MS

\* the access tokens the endpoint issues with such a lifetime
ShortLivedTokens ==
  {TheOne(r.body.access_token) : r \in {x \in TokenResponses : ShortLived(x)}}

\* C29: a credential acquired with expires_in <= 300 is returned as a
\* success by the call that acquired it, although it is inside the refresh
\* buffer from the start; it is never served from the cache, and while it
\* is cached every getValidToken starts a new acquisition exchange.
C29_ShortLivedNeverServed ==
  /\ (TokenReturned /\ ShortLived(last.recv)) =>
       /\ last.tokenResult.success
       /\ heap[last.tokenResult.data].expiresAt
            <= last.at + TOKEN_REFRESH_BUFFER_MS
       /\ ~isTokenValid(heap[last.tokenResult.data], now)
  /\ (TokenReturned /\ last.tokenPosts = 0 /\ last.tokenResult.success) =>
       heap[last.tokenResult.data].accessToken \notin ShortLivedTokens
  /\ (cachedToken # 0 /\ heap[cachedToken].accessToken \in ShortLivedTokens) =>
       getValidTokenSync(cachedToken, heap, now) =
         [hit |-> FALSE, post |-> TRUE, result |-> None]

\* a credential of 300 seconds is cached, and the call that started with it
\* in the cache has performed an exchange of its own
C29_Witness ==
  /\ TokenReturned
  /\ last.startKind = "stale"
  /\ last.tokenPosts = 1
  /\ last.cachedBefore # 0
  /\ last.heapBefore[last.cachedBefore].accessToken \in ShortLivedTokens
  /\ last.heapBefore[last.cachedBefore].expiresAt = last.at + TOKEN_REFRESH_BUFFER_MS

\* the latest step returned from getRates after the rate endpoint answered
\* 429 with a body that carries a retryAfter value
RateLimited ==
  /\ RateHttpFailure
  /\ last.recvRate.status = 429
  /\ Member(last.recvRate.body, "retryAfter") # {}

\* C30: getRetryAfter yields a value only for a RATE_LIMIT error with a
\* number under details.retryAfter; the error made from a 429 answer keeps
\* the body under details.responseBody and has no details.retryAfter, so
\* getRetryAfter is absent for every error getValidToken or getRates
\* returns, also when the 429 body carried a retryAfter value.
C30_NoRetryDelay ==
  /\ (TokenReturned /\ ~last.tokenResult.success) =>
       getRetryAfter(last.tokenResult.error) = {}
  /\ (RatesReturned /\ ~last.result.success) =>
       getRetryAfter(last.result.error) = {}
  /\ RateLimited =>
       LET error == last.result.error
           delay == Member(last.recvRate.body, "retryAfter")
       IN /\ error.severity = "RATE_LIMIT_ERROR"
          /\ error.details = [responseBody |-> last.recvRate.body]
          /\ getRetryAfter(createRateLimitError(error.message, error.carrier,
                             error.httpStatus, delay, error.details)) = delay
          /\ getRetryAfter([error EXCEPT
                              !.details = [retryAfter |-> delay],
                              !.severity = "SERVER_ERROR"]) = {}
          /\ getRetryAfter(createRateLimitError(error.message, error.carrier,
                             error.httpStatus, {}, error.details)) = {}

\* a 429 whose body says retryAfter 60 gives a RATE_LIMIT error without a
\* retry delay
C30_Witness ==
  /\ RateLimited
  /\ last.recvRate.body.retryAfter = {60}
  /\ last.result.error.severity = "RATE_LIMIT_ERROR"
  /\ last.result.error.details.responseBody.retryAfter = {60}
  /\ getRetryAfter(last.result.error) = {}

====
